---- MODULE Spec2Model ----
(***************************************************************************)
(* Model of resume_screening_singlefile.py: the skill matcher, the match   *)
(* scorer, the classifier, the reply composer, the drafts file and the     *)
(* handlers of StyledResumeApp.                                            *)
(*                                                                         *)
(* Representation.  A Python str is a sequence of one-character strings.   *)
(* A float percentage (match_pct, rounded to two decimals) is the integer  *)
(* number of hundredths of a percent: 70.0 is 7000, 33.33 is 3333.  An     *)
(* f-string is the sequence of its segments: a literal segment is a TLA+   *)
(* string, an interpolated field is a record tagged with its kind.         *)
(***************************************************************************)
EXTENDS Integers, Sequences, FiniteSets, TLC

VARIABLES
    resumes,         \* self.resumes: list of candidate dicts
    selected_index,  \* self.selected_index: None or a 0-based index
    req_entry,       \* text of self.req_entry
    crit_entry,      \* text of self.crit_entry
    reply_box,       \* content of self.reply_box
    drafts_file,     \* content of DRAFTS_FILE on disk
    screened,        \* the skill lists built by the latest screening pass
    savers,          \* save_draft invocations in progress, one per process
    call             \* a call of a pure function (inputs, result), or the log of saves

vars == <<resumes, selected_index, req_entry, crit_entry, reply_box,
          drafts_file, screened, savers, call>>

\* Python's None, where the code holds None or a number.
None == -1

(***************************************************************************)
(* Bounds of the model.                                                    *)
(***************************************************************************)
MaxTextLen == 3      \* length of a resume text given to the matcher
MaxSkillLen == 3     \* length of a skill given to the matcher
MaxRequired == 10    \* length of a required list given to the scorer
MaxCritical == 2     \* length of a critical list given to the classifier
MaxRawLen == 4       \* length of a comma-separated entry string

(***************************************************************************)
(* Characters.                                                             *)
(***************************************************************************)
Char == {"c", "C", "+", "#", " ", ","}

UpperSeq ==
    <<"A", "B", "C", "D", "E", "F", "G", "H", "I", "J", "K", "L", "M",
      "N", "O", "P", "Q", "R", "S", "T", "U", "V", "W", "X", "Y", "Z">>

LowerSeq ==
    <<"a", "b", "c", "d", "e", "f", "g", "h", "i", "j", "k", "l", "m",
      "n", "o", "p", "q", "r", "s", "t", "u", "v", "w", "x", "y", "z">>

UpperLetters == {UpperSeq[i] : i \in 1..Len(UpperSeq)}

LowerLetters == {LowerSeq[i] : i \in 1..Len(LowerSeq)}

Digits == {"0", "1", "2", "3", "4", "5", "6", "7", "8", "9"}

\* The characters of the model's strings in code point order.
CodePointOrder ==
    <<"\n", " ", "#", "+", ",", ".",
      "0", "1", "2", "3", "4", "5", "6", "7", "8", "9">>
    \o UpperSeq \o <<"_">> \o LowerSeq

\* str.lower() on one character.
LowerChar(ch) ==
    IF ch \in UpperLetters
    THEN LowerSeq[CHOOSE i \in 1..Len(UpperSeq) : UpperSeq[i] = ch]
    ELSE ch

\* Characters str.strip() and str.split() take for whitespace.
IsSpace(ch) == ch \in {" ", "\n"}

\* The class [a-z0-9\+\#] of normalize_text_for_matching.
IsSkillChar(ch) == ch \in LowerLetters \cup Digits \cup {"+", "#"}

\* The regex class \w, which defines \b.
IsWordChar(ch) == ch \in LowerLetters \cup UpperLetters \cup Digits \cup {"_"}

\* The rank of ch by ord(ch), which orders strings in sorted().
Ord(ch) == CHOOSE i \in 1..Len(CodePointOrder) : CodePointOrder[i] = ch

\* All sequences over alphabet of length at most n.
SeqsUpTo(alphabet, n) == UNION {[1..k -> alphabet] : k \in 0..n}

(***************************************************************************)
(* str methods.                                                            *)
(***************************************************************************)
Lower(s) == [i \in 1..Len(s) |-> LowerChar(s[i])]

RECURSIVE LStrip(_)
LStrip(s) ==
    IF s # <<>> /\ IsSpace(Head(s)) THEN LStrip(Tail(s)) ELSE s

RECURSIVE RStrip(_)
RStrip(s) ==
    IF s # <<>> /\ IsSpace(s[Len(s)]) THEN RStrip(SubSeq(s, 1, Len(s) - 1)) ELSE s

Strip(s) == RStrip(LStrip(s))

\* s.split(sep) for a one-character sep: the pieces between separators, empty
\* pieces included; "".split(",") is [""].
RECURSIVE SplitFrom(_, _, _)
SplitFrom(s, sep, piece) ==
    IF s = <<>> THEN <<piece>>
    ELSE IF Head(s) = sep THEN <<piece>> \o SplitFrom(Tail(s), sep, <<>>)
    ELSE SplitFrom(Tail(s), sep, Append(piece, Head(s)))

Split(s, sep) == SplitFrom(s, sep, <<>>)

\* kw in t, for strings.
Contains(t, kw) ==
    \E i \in 0..(Len(t) - Len(kw)) : SubSeq(t, i + 1, i + Len(kw)) = kw

\* x in xs, for a list.
InList(x, xs) == \E i \in 1..Len(xs) : xs[i] = x

ListSet(xs) == {xs[i] : i \in 1..Len(xs)}

\* Python's order on str: lexicographic by code point, a prefix first.
RECURSIVE StrLess(_, _)
StrLess(a, b) ==
    IF b = <<>> THEN FALSE
    ELSE IF a = <<>> THEN TRUE
    ELSE IF Head(a) # Head(b) THEN Ord(Head(a)) < Ord(Head(b))
    ELSE StrLess(Tail(a), Tail(b))

\* sorted(S) for a set of strings.
RECURSIVE Sorted(_)
Sorted(S) ==
    IF S = {} THEN <<>>
    ELSE LET least == CHOOSE x \in S : \A y \in S \ {x} : StrLess(x, y)
         IN <<least>> \o Sorted(S \ {least})

(***************************************************************************)
(* Skills matching.                                                        *)
(***************************************************************************)
\* re.sub(r"[^a-z0-9\+\#]+", " ", t): every maximal run of characters outside
\* the class becomes one space.
RECURSIVE SubRuns(_, _)
SubRuns(t, inRun) ==
    IF t = <<>> THEN <<>>
    ELSE IF IsSkillChar(Head(t)) THEN <<Head(t)>> \o SubRuns(Tail(t), FALSE)
    ELSE IF inRun THEN SubRuns(Tail(t), TRUE)
    ELSE <<" ">> \o SubRuns(Tail(t), TRUE)

normalize_text_for_matching(text) ==
    <<" ">> \o SubRuns(Lower(text), FALSE) \o <<" ">>

\* \b at offset p of t (between t[p] and t[p+1], 1-based): exactly one side is
\* a word character; beyond either end counts as a non-word character.
WordBoundary(t, p) ==
    LET before == p >= 1 /\ IsWordChar(t[p])
        after == p < Len(t) /\ IsWordChar(t[p + 1])
    IN before # after

\* re.search(r"\b" + re.escape(kw) + r"\b", t)
SearchWord(kw, t) ==
    \E i \in 0..(Len(t) - Len(kw)) :
        /\ WordBoundary(t, i)
        /\ SubSeq(t, i + 1, i + Len(kw)) = kw
        /\ WordBoundary(t, i + Len(kw))

\* The test of one skill in the loop of find_skill_matches, on the normalized
\* text t and the stripped, lowercased skill kw.
SkillMatches(t, kw) ==
    IF InList(" ", kw) THEN Contains(t, kw) ELSE SearchWord(kw, t)

find_skill_matches(text, skills_list) ==
    LET t == normalize_text_for_matching(text)
        kws == {Lower(Strip(skills_list[i])) : i \in 1..Len(skills_list)}
    IN Sorted({kw \in kws : kw # <<>> /\ SkillMatches(t, kw)})

(***************************************************************************)
(* Match scorer.                                                           *)
(***************************************************************************)
\* round((matched / total) * 100.0, 2) in hundredths of a percent.  Python
\* rounds the double to the nearest, a tie to even; for total < 160 every
\* quotient rounds as the exact fraction does.
RoundPct(matched, total) ==
    LET n == matched * 10000
        q == n \div total
        r == n % total
    IN IF 2 * r > total \/ (2 * r = total /\ q % 2 = 1) THEN q + 1 ELSE q

\* compute_match_percentage counting every found skill, required or not.
compute_match_percentage_counting_found(required_skills, found_skills) ==
    IF required_skills = <<>> THEN [pct |-> 0, matched |-> 0, total |-> 0]
    ELSE LET total == Len(required_skills)
             matched == Len(found_skills)
         IN [pct |-> RoundPct(matched, total), matched |-> matched, total |-> total]

\* compute_match_percentage taking an empty required list for a full match.
compute_match_percentage_vacuous(required_skills, found_skills) ==
    IF required_skills = <<>> THEN [pct |-> 10000, matched |-> 0, total |-> 0]
    ELSE LET total == Len(required_skills)
             matched == Cardinality({i \in 1..total :
                                        InList(required_skills[i], found_skills)})
         IN [pct |-> RoundPct(matched, total), matched |-> matched, total |-> total]

compute_match_percentage(required_skills, found_skills) ==
    IF required_skills = <<>> THEN [pct |-> 0, matched |-> 0, total |-> 0]
    ELSE LET total == Len(required_skills)
             matched == Cardinality({i \in 1..total :
                                        InList(required_skills[i], found_skills)})
         IN [pct |-> RoundPct(matched, total), matched |-> matched, total |-> total]

(***************************************************************************)
(* Classification.                                                         *)
(***************************************************************************)
SuitablePct == 7000
MaybePct == 4000

\* [c for c in critical_skills if c not in found_skills and c.strip() != ""]
RECURSIVE MissingCritical(_, _)
MissingCritical(critical_skills, found_skills) ==
    IF critical_skills = <<>> THEN <<>>
    ELSE LET c == Head(critical_skills)
             rest == MissingCritical(Tail(critical_skills), found_skills)
         IN IF ~InList(c, found_skills) /\ Strip(c) # <<>> THEN <<c>> \o rest ELSE rest

\* classify_by_required_skills testing the percentage before the critical
\* skills.
classify_by_required_skills_pct_first(required_skills, found_skills, critical_skills) ==
    LET m == compute_match_percentage(required_skills, found_skills)
        missing_critical == MissingCritical(critical_skills, found_skills)
        matchedReason == [kind |-> "matched", matched |-> m.matched,
                          total |-> m.total, pct |-> m.pct]
    IN IF m.pct >= SuitablePct
       THEN [classification |-> "Suitable", match_pct |-> m.pct, reason |-> matchedReason]
       ELSE IF missing_critical # <<>>
       THEN [classification |-> "Reject", match_pct |-> m.pct,
             reason |-> [kind |-> "missing_critical", skills |-> missing_critical]]
       ELSE IF m.pct >= MaybePct
       THEN [classification |-> "Maybe", match_pct |-> m.pct, reason |-> matchedReason]
       ELSE [classification |-> "Reject", match_pct |-> m.pct, reason |-> matchedReason]

\* classify_by_required_skills with the bounds 70 and 40 exclusive.
classify_by_required_skills_exclusive(required_skills, found_skills, critical_skills) ==
    LET m == compute_match_percentage(required_skills, found_skills)
        missing_critical == MissingCritical(critical_skills, found_skills)
        matchedReason == [kind |-> "matched", matched |-> m.matched,
                          total |-> m.total, pct |-> m.pct]
    IN IF missing_critical # <<>>
       THEN [classification |-> "Reject", match_pct |-> m.pct,
             reason |-> [kind |-> "missing_critical", skills |-> missing_critical]]
       ELSE IF m.pct > SuitablePct
       THEN [classification |-> "Suitable", match_pct |-> m.pct, reason |-> matchedReason]
       ELSE IF m.pct > MaybePct
       THEN [classification |-> "Maybe", match_pct |-> m.pct, reason |-> matchedReason]
       ELSE [classification |-> "Reject", match_pct |-> m.pct, reason |-> matchedReason]

classify_by_required_skills(required_skills, found_skills, critical_skills) ==
    LET m == compute_match_percentage(required_skills, found_skills)
        missing_critical == MissingCritical(critical_skills, found_skills)
        matchedReason == [kind |-> "matched", matched |-> m.matched,
                          total |-> m.total, pct |-> m.pct]
    IN IF missing_critical # <<>>
       THEN [classification |-> "Reject", match_pct |-> m.pct,
             reason |-> [kind |-> "missing_critical", skills |-> missing_critical]]
       ELSE IF m.pct >= SuitablePct
       THEN [classification |-> "Suitable", match_pct |-> m.pct, reason |-> matchedReason]
       ELSE IF m.pct >= MaybePct
       THEN [classification |-> "Maybe", match_pct |-> m.pct, reason |-> matchedReason]
       ELSE [classification |-> "Reject", match_pct |-> m.pct, reason |-> matchedReason]

(***************************************************************************)
(* Reply template.  The body is the sequence of the f-string's segments:   *)
(* literal text, and the interpolated name, skills and percentage.         *)
(***************************************************************************)
Text(s) == [kind |-> "text", value |-> s]

\* sep.join(xs)
RECURSIVE Join(_, _)
Join(xs, sep) ==
    IF xs = <<>> THEN <<>>
    ELSE IF Len(xs) = 1 THEN Head(xs)
    ELSE Head(xs) \o sep \o Join(Tail(xs), sep)

\* xs[:n]
Take(xs, n) == SubSeq(xs, 1, IF Len(xs) < n THEN Len(xs) ELSE n)

\* {name or 'Candidate'}
NameOrCandidate(name) ==
    IF name = <<>> THEN Text("Candidate") ELSE [kind |-> "name", value |-> name]

\* {', '.join(top_skills[:n]) or fallback}
SkillsOr(top_skills, n, fallback) ==
    LET joined == Join(Take(top_skills, n), <<",", " ">>)
    IN IF joined = <<>> THEN Text(fallback) ELSE [kind |-> "skills", value |-> joined]

PctField(match_pct) == [kind |-> "pct", value |-> match_pct]

SuitableSkillsShown == 6
MaybeSkillsShown == 5

SuitableBody(name, top_skills, match_pct) ==
    << Text("Hi "), NameOrCandidate(name),
       Text(",\n\nThank you for applying. We reviewed your resume and your skills ("),
       SkillsOr(top_skills, SuitableSkillsShown, "relevant skills"),
       Text(") show a strong fit for the role (match: "),
       PctField(match_pct),
       Text("%). We'll move your application to the next stage and contact you soon with interview details.\n\nBest regards,\nRecruitment Team") >>

MaybeBody(name, top_skills, match_pct) ==
    << Text("Hi "), NameOrCandidate(name),
       Text(",\n\nThank you for applying. We see potential fit based on your skills ("),
       SkillsOr(top_skills, MaybeSkillsShown, "listed skills"),
       Text("). Your match is "),
       PctField(match_pct),
       Text("%. We'll review further and may reach out for a short screening call.\n\nBest regards,\nRecruitment Team") >>

DeclineBody(name) ==
    << Text("Hi "), NameOrCandidate(name),
       Text(",\n\nThank you for applying. At this time we will not be proceeding with your application. We appreciate your interest and encourage you to apply for future openings that match your experience.\n\nBest regards,\nRecruitment Team") >>

\* generate_reply_template giving every classification but Suitable the
\* template of Maybe.
generate_reply_template_no_decline(name, classification, top_skills, match_pct) ==
    IF classification = "Suitable" THEN SuitableBody(name, top_skills, match_pct)
    ELSE MaybeBody(name, top_skills, match_pct)

generate_reply_template(name, classification, top_skills, match_pct) ==
    IF classification = "Suitable" THEN SuitableBody(name, top_skills, match_pct)
    ELSE IF classification = "Maybe" THEN MaybeBody(name, top_skills, match_pct)
    ELSE DeclineBody(name)

(***************************************************************************)
(* Persistence.  The drafts file holds the text json.dump wrote: a list of *)
(* objects, each the key/value pairs of a draft in insertion order, a str  *)
(* as a JSON string and the float match_pct as its decimal digits.         *)
(***************************************************************************)
JStr(v) == [t |-> "string", s |-> v]

\* repr of a float rounded to two decimals: the digits before and after the
\* point.
JNum(pct) == [t |-> "number", whole |-> pct \div 100, frac |-> pct % 100]

JsonObject(d) ==
    << <<"candidate_file", JStr(d.candidate_file)>>,
       <<"classification", JStr(d.classification)>>,
       <<"match_pct", JNum(d.match_pct)>>,
       <<"reply", JStr(d.reply)>>,
       <<"saved_at", JStr(d.saved_at)>> >>

\* The value of a key of a parsed object.
ValueOf(obj, key) ==
    LET v == obj[CHOOSE i \in 1..Len(obj) : obj[i][1] = key][2]
    IN IF v.t = "number" THEN v.whole * 100 + v.frac ELSE v.s

ParseObject(obj) ==
    [candidate_file |-> ValueOf(obj, "candidate_file"),
     classification |-> ValueOf(obj, "classification"),
     match_pct |-> ValueOf(obj, "match_pct"),
     reply |-> ValueOf(obj, "reply"),
     saved_at |-> ValueOf(obj, "saved_at")]

\* json.dump(drafts, f, ...) into the file opened with "w".
JsonDump(drafts) ==
    [exists |-> TRUE, valid |-> TRUE,
     items |-> [i \in 1..Len(drafts) |-> JsonObject(drafts[i])]]

\* json.load(f) of a file json.load accepts.
JsonLoad(file) == [i \in 1..Len(file.items) |-> ParseObject(file.items[i])]

\* The file just opened with "w": it exists and is empty.
TruncatedFile == [exists |-> TRUE, valid |-> FALSE, items |-> <<>>]

\* The drafts save_draft starts from: those of the file, or [] when the file
\* is absent or json.load raises.
ReadDrafts(file) ==
    IF file.exists /\ file.valid THEN JsonLoad(file) ELSE <<>>

\* save_draft forgetting what the file holds.
save_draft_overwriting(file, d) == JsonDump(<<d>>)

\* save_draft(d) run from start to end on the drafts file: the file after.
save_draft(file, d) == JsonDump(Append(ReadDrafts(file), d))

(***************************************************************************)
(* The application outside any handler: the state __init__ leaves, which   *)
(* the specifications of the pure functions keep.                          *)
(***************************************************************************)
appVars == <<resumes, selected_index, req_entry, crit_entry, reply_box,
             drafts_file, screened, savers>>

NoCall == [fn |-> "none"]

(***************************************************************************)
(* Inputs of the scorer and the classifier: lists over three skills, one   *)
(* required and critical, one required only, one critical only, and a      *)
(* blank critical entry.                                                   *)
(***************************************************************************)
SkillBoth == <<"c">>
SkillRequiredOnly == <<"c", "+">>
SkillCriticalOnly == <<"c", "#">>
BlankSkill == <<" ">>

RequiredLists == SeqsUpTo({SkillBoth, SkillRequiredOnly}, MaxRequired)
CriticalLists == SeqsUpTo({SkillBoth, SkillCriticalOnly, BlankSkill}, MaxCritical)
FoundLists == {Sorted(S) : S \in SUBSET {SkillBoth, SkillRequiredOnly, SkillCriticalOnly}}

(***************************************************************************)
(* Config and the state __init__ leaves.                                   *)
(***************************************************************************)
DEFAULT_REQUIRED_SKILLS ==
    <<"p", "y", "t", "h", "o", "n", ",", " ",
      "m", "a", "c", "h", "i", "n", "e", " ", "l", "e", "a", "r", "n", "i", "n", "g", ",", " ",
      "s", "q", "l", ",", " ", "a", "w", "s">>

DEFAULT_CRITICAL_SKILLS == <<>>

\* The drafts file holds JSON text: a list of objects, or (an empty or cut
\* file) text json.load rejects.
EmptyListFile == [exists |-> TRUE, valid |-> TRUE, items |-> <<>>]
CorruptFile == [exists |-> TRUE, valid |-> FALSE, items |-> <<>>]
AbsentFile == [exists |-> FALSE, valid |-> FALSE, items |-> <<>>]

EmptyReplyBox == [kind |-> "empty"]

NoSavers == <<>>

\* No screening pass has run.
NotScreened == [done |-> FALSE, required |-> <<>>, critical |-> <<>>]

\* The state StyledResumeApp.__init__ leaves.
AppIdle ==
    /\ resumes = <<>>
    /\ selected_index = None
    /\ req_entry = DEFAULT_REQUIRED_SKILLS
    /\ crit_entry = DEFAULT_CRITICAL_SKILLS
    /\ reply_box = EmptyReplyBox
    /\ drafts_file = EmptyListFile
    /\ screened = NotScreened
    /\ savers = NoSavers

(***************************************************************************)
(* compute_match_percentage on every required list and found list.         *)
(***************************************************************************)
ScoreInit ==
    /\ AppIdle
    /\ \E r \in RequiredLists, f \in FoundLists :
          call = [fn |-> "compute_match_percentage", required |-> r, found |-> f,
                  done |-> FALSE, result |-> None]

ApplyScore ==
    /\ call.fn = "compute_match_percentage"
    /\ ~call.done
    /\ call' = [call EXCEPT !.done = TRUE,
                     !.result = compute_match_percentage(call.required, call.found)]
    /\ UNCHANGED appVars

SpecScore == ScoreInit /\ [][ApplyScore]_vars

ScoreDone == call.fn = "compute_match_percentage" /\ call.done

\* The entries of found that are entries of required.
RECURSIVE RequiredOnly(_, _)
RequiredOnly(found, required) ==
    IF found = <<>> THEN <<>>
    ELSE IF InList(Head(found), required)
         THEN <<Head(found)>> \o RequiredOnly(Tail(found), required)
         ELSE RequiredOnly(Tail(found), required)

AbsDiff(a, b) == IF a >= b THEN a - b ELSE b - a

\* C3: for a required list of size >= 1, matched is the number of required
\* entries present in found, total is the size of the required list, the
\* percentage is 100*matched/total to the nearest hundredth and lies in
\* [0,100], and dropping the found skills that are not required leaves the
\* result unchanged.
C3_MatchPercentage ==
    (ScoreDone /\ call.required # <<>>) =>
        LET total == Len(call.required)
            matched == Cardinality({i \in 1..total : InList(call.required[i], call.found)})
        IN /\ call.result.matched = matched
           /\ call.result.total = total
           /\ 2 * AbsDiff(call.result.pct * total, 10000 * matched) <= total
           /\ call.result.pct >= 0
           /\ call.result.pct <= 10000
           /\ compute_match_percentage(call.required,
                                       RequiredOnly(call.found, call.required))
                = call.result

\* A scored call with a critical-only skill among the found ones and a
\* percentage that needs rounding (1 of 3: 33.33).
C3_Witness ==
    /\ ScoreDone
    /\ InList(SkillCriticalOnly, call.found)
    /\ call.result.total = 3
    /\ call.result.matched = 1
    /\ call.result.pct = 3333

\* C4: with an empty required list the result is (0.0, 0, 0) whatever was
\* found.
C4_EmptyRequired ==
    (ScoreDone /\ call.required = <<>>) =>
        call.result = [pct |-> 0, matched |-> 0, total |-> 0]

\* A scored call with an empty required list and every skill found.
C4_Witness ==
    /\ ScoreDone
    /\ call.required = <<>>
    /\ Len(call.found) = 3

(***************************************************************************)
(* classify_by_required_skills on every required, found and critical list. *)
(***************************************************************************)
ClassifyInit ==
    /\ AppIdle
    /\ \E r \in RequiredLists, f \in FoundLists, c \in CriticalLists :
          call = [fn |-> "classify_by_required_skills", required |-> r, found |-> f,
                  critical |-> c, done |-> FALSE, result |-> None]

ApplyClassify ==
    /\ call.fn = "classify_by_required_skills"
    /\ ~call.done
    /\ call' = [call EXCEPT !.done = TRUE,
                     !.result = classify_by_required_skills(call.required, call.found,
                                                            call.critical)]
    /\ UNCHANGED appVars

SpecClassify == ClassifyInit /\ [][ApplyClassify]_vars

ClassifyDone == call.fn = "classify_by_required_skills" /\ call.done

\* A non-blank critical skill is absent from the found skills.
CriticalAbsent ==
    \E i \in 1..Len(call.critical) :
        /\ Strip(call.critical[i]) # <<>>
        /\ ~InList(call.critical[i], call.found)

\* C1: when a non-blank critical skill is absent from the found skills the
\* classification is Reject, whatever the match percentage.
C1_CriticalAbsentRejects ==
    (ClassifyDone /\ CriticalAbsent) => call.result.classification = "Reject"

\* A classified call that misses a critical skill at a 100% match.
C1_Witness ==
    /\ ClassifyDone
    /\ CriticalAbsent
    /\ call.result.match_pct = 10000
    /\ call.result.classification = "Reject"

\* C2: when no non-blank critical skill is missing, the classification is
\* Suitable exactly when match_pct >= 70, Maybe exactly when
\* 40 <= match_pct < 70 and Reject exactly when match_pct < 40.
C2_Thresholds ==
    (ClassifyDone /\ ~CriticalAbsent) =>
        LET pct == RoundPct(Cardinality({i \in 1..Len(call.required) :
                                            InList(call.required[i], call.found)}),
                            IF call.required = <<>> THEN 1 ELSE Len(call.required))
        IN /\ call.result.match_pct = pct
           /\ (call.result.classification = "Suitable") <=> (pct >= 7000)
           /\ (call.result.classification = "Maybe") <=> (pct >= 4000 /\ pct < 7000)
           /\ (call.result.classification = "Reject") <=> (pct < 4000)

\* A classified call exactly on the 70% bound (7 of 10), with a blank
\* critical entry and no critical skill missing.
C2_Witness ==
    /\ ClassifyDone
    /\ ~CriticalAbsent
    /\ InList(BlankSkill, call.critical)
    /\ call.result.match_pct = 7000
    /\ call.result.classification = "Suitable"

\* A classified call exactly on the 40% bound (2 of 5).
C2_WitnessMaybe ==
    /\ ClassifyDone
    /\ ~CriticalAbsent
    /\ Len(call.required) = 5
    /\ call.result.match_pct = 4000
    /\ call.result.classification = "Maybe"

(***************************************************************************)
(* find_skill_matches on every text and every single skill.                *)
(***************************************************************************)
MatchInit ==
    /\ AppIdle
    /\ \E t \in SeqsUpTo(Char, MaxTextLen), k \in SeqsUpTo(Char, MaxSkillLen) :
          call = [fn |-> "find_skill_matches", text |-> t, skill |-> k,
                  done |-> FALSE, result |-> None]

ApplyMatch ==
    /\ call.fn = "find_skill_matches"
    /\ ~call.done
    /\ call' = [call EXCEPT !.done = TRUE,
                     !.result = find_skill_matches(call.text, <<call.skill>>)]
    /\ UNCHANGED appVars

SpecMatch == MatchInit /\ [][ApplyMatch]_vars

MatchDone == call.fn = "find_skill_matches" /\ call.done

\* kw occurs in t as a standalone token: on each side the start or end of t
\* or a character outside [a-z0-9+#].
StandaloneToken(t, kw) ==
    \E i \in 0..(Len(t) - Len(kw)) :
        /\ SubSeq(t, i + 1, i + Len(kw)) = kw
        /\ (i = 0 \/ ~IsSkillChar(t[i]))
        /\ (i + Len(kw) = Len(t) \/ ~IsSkillChar(t[i + Len(kw) + 1]))

\* C5: a single-token skill is found if and only if it occurs in the
\* normalized text as a standalone token, delimited on both sides by a
\* character outside [a-z0-9+#] or by the start or end of the string.
C5_StandaloneToken ==
    LET kw == Lower(Strip(call.skill))
    IN (MatchDone /\ kw # <<>> /\ ~InList(" ", kw)) =>
           (InList(kw, call.result)
              <=> StandaloneToken(normalize_text_for_matching(call.text), kw))

\* C5 for the skills that end in '+' or '#': present as a token, found.
C5_PlusHashSkillFound ==
    LET kw == Lower(Strip(call.skill))
    IN (/\ MatchDone
        /\ kw # <<>>
        /\ ~InList(" ", kw)
        /\ kw[Len(kw)] \in {"+", "#"}
        /\ StandaloneToken(normalize_text_for_matching(call.text), kw))
       => InList(kw, call.result)

(***************************************************************************)
(* The skill lists screen_resumes builds from the two entries.             *)
(***************************************************************************)
\* [s.strip().lower() for s in pieces if s.strip()]
RECURSIVE StripLowerNonEmpty(_)
StripLowerNonEmpty(pieces) ==
    IF pieces = <<>> THEN <<>>
    ELSE IF Strip(Head(pieces)) # <<>>
         THEN <<Lower(Strip(Head(pieces)))>> \o StripLowerNonEmpty(Tail(pieces))
         ELSE StripLowerNonEmpty(Tail(pieces))

\* ParseSkills leaving the case of the entries as typed.
RECURSIVE StripNonEmpty(_)
StripNonEmpty(pieces) ==
    IF pieces = <<>> THEN <<>>
    ELSE IF Strip(Head(pieces)) # <<>>
         THEN <<Strip(Head(pieces))>> \o StripNonEmpty(Tail(pieces))
         ELSE StripNonEmpty(Tail(pieces))

ParseSkills_keep_case(entry) ==
    LET raw == Strip(entry)
    IN IF raw # <<>> THEN StripNonEmpty(Split(raw, ",")) ELSE <<>>

\* The list built from the text of an entry:
\* raw = entry.get().strip(); [...] if raw else []
ParseSkills(entry) ==
    LET raw == Strip(entry)
    IN IF raw # <<>> THEN StripLowerNonEmpty(Split(raw, ",")) ELSE <<>>

ParseInit ==
    /\ AppIdle
    /\ \E e \in SeqsUpTo(Char, MaxRawLen) :
          call = [fn |-> "ParseSkills", entry |-> e, done |-> FALSE, result |-> None]

ApplyParse ==
    /\ call.fn = "ParseSkills"
    /\ ~call.done
    /\ call' = [call EXCEPT !.done = TRUE, !.result = ParseSkills(call.entry)]
    /\ UNCHANGED appVars

SpecParse == ParseInit /\ [][ApplyParse]_vars

ParseDone == call.fn = "ParseSkills" /\ call.done

NoDuplicates(xs) == \A i, j \in 1..Len(xs) : xs[i] = xs[j] => i = j

\* C7: the list built from an entry is trimmed, lowercased, and holds no
\* empty entry and no duplicate entry.
C7_ParsedList ==
    ParseDone =>
        /\ \A i \in 1..Len(call.result) :
              /\ Strip(call.result[i]) = call.result[i]
              /\ Lower(call.result[i]) = call.result[i]
              /\ call.result[i] # <<>>
        /\ NoDuplicates(call.result)

\* C7 without the duplicates: trimmed, lowercased, no empty entry.
C7_TrimmedLowerNonEmpty ==
    ParseDone =>
        \A i \in 1..Len(call.result) :
            /\ Strip(call.result[i]) = call.result[i]
            /\ Lower(call.result[i]) = call.result[i]
            /\ call.result[i] # <<>>

(***************************************************************************)
(* generate_reply_template on names, classifications, skill lists and      *)
(* percentages.                                                            *)
(***************************************************************************)
MaxTopSkills == 7

JaneDoe == <<"J", "a", "n", "e", " ", "D", "o", "e">>

ReplyNames == {<<>>, JaneDoe}
ReplyClassifications == {"Suitable", "Maybe", "Reject", "Unscreened", "Shortlisted"}
ReplySkillLists == SeqsUpTo({SkillBoth, SkillRequiredOnly}, MaxTopSkills)
ReplyPcts == {0, 3333, 4000, 7000, 10000}

ReplyInit ==
    /\ AppIdle
    /\ \E n \in ReplyNames, c \in ReplyClassifications,
          k \in ReplySkillLists, p \in ReplyPcts :
          call = [fn |-> "generate_reply_template", name |-> n, classification |-> c,
                  top_skills |-> k, match_pct |-> p, done |-> FALSE, result |-> None]

ApplyReply ==
    /\ call.fn = "generate_reply_template"
    /\ ~call.done
    /\ call' = [call EXCEPT !.done = TRUE,
                     !.result = generate_reply_template(call.name, call.classification,
                                                        call.top_skills, call.match_pct)]
    /\ UNCHANGED appVars

SpecReply == ReplyInit /\ [][ApplyReply]_vars

ReplyDone == call.fn = "generate_reply_template" /\ call.done

\* The body cites skills or a percentage.
CitesSkillsOrPct(body) == \E i \in 1..Len(body) : body[i].kind \in {"skills", "pct"}

\* C8: for a classification other than Suitable and Maybe the reply is the
\* generic decline: it cites neither skills nor a percentage, and it is the
\* same body whatever the skill list, the percentage and the classification.
C8_DeclineCitesNothing ==
    (ReplyDone /\ call.classification \notin {"Suitable", "Maybe"}) =>
        /\ ~CitesSkillsOrPct(call.result)
        /\ call.result = generate_reply_template(call.name, "Reject", <<>>, 0)
        /\ \A i \in 1..Len(call.result) : call.result[i].kind \in {"text", "name"}

\* A reply composed for a rejected candidate with found skills and a
\* non-zero percentage.
C8_Witness ==
    /\ ReplyDone
    /\ call.classification = "Reject"
    /\ call.top_skills # <<>>
    /\ call.match_pct = 3333
    /\ call.name = JaneDoe

(***************************************************************************)
(* The files the upload dialog offers, and what reading each gives.        *)
(***************************************************************************)
SUPPORTED_EXT == {".pdf", ".docx", ".txt"}

JaneText == <<"J", "a", "n", "e", " ", "D", "o", "e", "\n", "P", "y", "t", "h", "o", "n", ",", " ", "S", "Q", "L", ",", " ", "C", "+", "+">>

NotesText == <<"r", "e", "s", "u", "m", "e", "\n", "s", "q", "l">>

\* path, os.path.basename(path), the extension of path.lower(), and the
\* outcome of extract_text_from_file(path): the text, or an exception
\* (PyPDF2 is not installed).
DiskFiles ==
    { [path |-> "/cv/jane.txt", name |-> "jane.txt", ext |-> ".txt",
       ok |-> TRUE, text |-> JaneText],
      [path |-> "/cv/NOTES.TXT", name |-> "NOTES.TXT", ext |-> ".txt",
       ok |-> TRUE, text |-> NotesText],
      [path |-> "/cv/scan.pdf", name |-> "scan.pdf", ext |-> ".pdf",
       ok |-> FALSE, text |-> <<>>],
      [path |-> "/cv/photo.png", name |-> "photo.png", ext |-> ".png",
       ok |-> FALSE, text |-> <<>>] }

MaxBatch == 3

\* The selections the file dialog can return: distinct files in some order.
Batches ==
    {b \in SeqsUpTo(DiskFiles, MaxBatch) :
        b # <<>> /\ \A i, j \in 1..Len(b) : b[i] = b[j] => i = j}

\* What the user can type into the two entries.
PythonSql == <<"p", "y", "t", "h", "o", "n", ",", " ", "s", "q", "l">>

PythonTwice == <<" ", "P", "y", "t", "h", "o", "n", ",", "p", "y", "t", "h", "o", "n", ",", ",", " ">>

Aws == <<"a", "w", "s">>

SqlUpper == <<"S", "Q", "L", " ">>

ReqEntryTexts == {DEFAULT_REQUIRED_SKILLS, PythonSql, PythonTwice, <<>>}
CritEntryTexts == {DEFAULT_CRITICAL_SKILLS, Aws, SqlUpper}

(***************************************************************************)
(* Handlers of StyledResumeApp.                                            *)
(***************************************************************************)
NoReason == [kind |-> "none"]

\* The dict upload_resumes appends for a file.
NewCandidate(f, text) ==
    [path |-> f.path, name |-> f.name, text |-> text, found_skills |-> <<>>,
     classification |-> "Unscreened", match_pct |-> 0, reason |-> NoReason]

\* A loop that lets the exception of extract_text_from_file escape: the
\* handler ends at the first file that cannot be read.
RECURSIVE UploadLoop_aborting(_, _)
UploadLoop_aborting(rs, paths) ==
    IF paths = <<>> THEN rs
    ELSE LET f == Head(paths)
         IN IF f.ext \notin SUPPORTED_EXT THEN UploadLoop_aborting(rs, Tail(paths))
            ELSE IF \E i \in 1..Len(rs) : rs[i].path = f.path
                 THEN UploadLoop_aborting(rs, Tail(paths))
            ELSE IF ~f.ok THEN rs
            ELSE UploadLoop_aborting(Append(rs, NewCandidate(f, f.text)), Tail(paths))

\* The loop of upload_resumes over the selected paths.
RECURSIVE UploadLoop(_, _)
UploadLoop(rs, paths) ==
    IF paths = <<>> THEN rs
    ELSE LET f == Head(paths)
         IN IF f.ext \notin SUPPORTED_EXT THEN UploadLoop(rs, Tail(paths))
            ELSE IF \E i \in 1..Len(rs) : rs[i].path = f.path
                 THEN UploadLoop(rs, Tail(paths))
            ELSE UploadLoop(Append(rs, NewCandidate(f, IF f.ok THEN f.text ELSE <<>>)),
                            Tail(paths))

upload_resumes(paths) ==
    /\ paths # <<>>
    /\ resumes' = UploadLoop(resumes, paths)
    /\ UNCHANGED <<selected_index, req_entry, crit_entry, reply_box, drafts_file,
                   screened, savers, call>>

\* The user edits the required skills entry.
EditRequired(s) ==
    /\ req_entry # s
    /\ req_entry' = s
    /\ UNCHANGED <<resumes, selected_index, crit_entry, reply_box, drafts_file,
                   screened, savers, call>>

\* The user edits the critical skills entry.
EditCritical(s) ==
    /\ crit_entry # s
    /\ crit_entry' = s
    /\ UNCHANGED <<resumes, selected_index, req_entry, reply_box, drafts_file,
                   screened, savers, call>>

\* The body of the loop of screen_resumes for one candidate.
ScreenOne(r, required_skills, critical_skills) ==
    LET found == find_skill_matches(r.text, required_skills \o critical_skills)
        c == classify_by_required_skills(required_skills, found, critical_skills)
    IN [r EXCEPT !.found_skills = found,
                 !.classification = c.classification,
                 !.match_pct = c.match_pct,
                 !.reason = c.reason]

screen_resumes ==
    /\ resumes # <<>>
    /\ LET required_skills == ParseSkills(req_entry)
           critical_skills == ParseSkills(crit_entry)
       IN /\ resumes' = [i \in 1..Len(resumes) |->
                            ScreenOne(resumes[i], required_skills, critical_skills)]
          /\ screened' = [done |-> TRUE, required |-> required_skills,
                        critical |-> critical_skills]
    /\ UNCHANGED <<selected_index, req_entry, crit_entry, reply_box, drafts_file,
                   savers, call>>

\* The user selects row idx of the tree, which refresh_tree keeps in step
\* with self.resumes.
on_tree_select(idx) ==
    /\ idx \in 0..(Len(resumes) - 1)
    /\ selected_index' = idx
    /\ reply_box' = EmptyReplyBox
    /\ UNCHANGED <<resumes, req_entry, crit_entry, drafts_file, screened, savers, call>>

\* del xs[idx], idx 0-based.
DeleteAt(xs, idx) == SubSeq(xs, 1, idx) \o SubSeq(xs, idx + 2, Len(xs))

\* remove_selected leaving selected_index as it was.
remove_selected_keeping_index ==
    /\ selected_index # None
    /\ selected_index < Len(resumes)
    /\ resumes' = DeleteAt(resumes, selected_index)
    /\ reply_box' = EmptyReplyBox
    /\ UNCHANGED <<selected_index, req_entry, crit_entry, drafts_file, screened,
                   savers, call>>

\* remove_selected, the confirmation answered yes.
\* (self.resumes[idx] raises IndexError for an idx out of range, and the
\* handler then changes nothing.)
remove_selected ==
    /\ selected_index # None
    /\ selected_index < Len(resumes)
    /\ resumes' = DeleteAt(resumes, selected_index)
    /\ selected_index' = None
    /\ reply_box' = EmptyReplyBox
    /\ UNCHANGED <<req_entry, crit_entry, drafts_file, screened, savers, call>>

\* clear_all, the confirmation answered yes.
clear_all ==
    /\ resumes # <<>>
    /\ resumes' = <<>>
    /\ selected_index' = None
    /\ reply_box' = EmptyReplyBox
    /\ UNCHANGED <<req_entry, crit_entry, drafts_file, screened, savers, call>>

(***************************************************************************)
(* Uploads, edits of the skill entries, screening passes, selections and   *)
(* removals, in any order.                                                 *)
(***************************************************************************)
ScreeningInit == AppIdle /\ call = NoCall

Upload == \E paths \in Batches : upload_resumes(paths)

EditRequiredEntry == \E s \in ReqEntryTexts : EditRequired(s)

EditCriticalEntry == \E s \in CritEntryTexts : EditCritical(s)

Screen == screen_resumes

Select == \E idx \in 0..(Len(resumes) - 1) : on_tree_select(idx)

Remove == remove_selected

Clear == clear_all

ScreeningNext ==
    \/ Upload
    \/ EditRequiredEntry
    \/ EditCriticalEntry
    \/ Screen
    \/ Select
    \/ Remove
    \/ Clear

SpecScreening == ScreeningInit /\ [][ScreeningNext]_vars

\* C6: after every screening pass each candidate's found_skills is a subset
\* of required \cup critical as the pass built them; a candidate uploaded
\* since has no found skill.
C6_FoundSubsetOfConfigured ==
    \A i \in 1..Len(resumes) :
        IF resumes[i].classification = "Unscreened"
        THEN resumes[i].found_skills = <<>>
        ELSE /\ screened.done
             /\ ListSet(resumes[i].found_skills)
                    \subseteq ListSet(screened.required) \cup ListSet(screened.critical)

\* A candidate screened with skills found from the required and from the
\* critical entry, the critical one typed in upper case.
C6_Witness ==
    /\ screened.done
    /\ \E i \in 1..Len(resumes) :
          /\ Len(resumes[i].found_skills) = 2
          /\ \E k \in 1..2 : ~InList(resumes[i].found_skills[k], screened.required)
    /\ crit_entry = SqlUpper
    /\ screened.critical = <<<<"s", "q", "l">>>>

(***************************************************************************)
(* Uploads of batches and screening passes, the critical skills edited in  *)
(* between.                                                                *)
(***************************************************************************)
BatchNext ==
    \/ Upload
    \/ EditCriticalEntry
    \/ Screen
    \/ Clear

SpecBatch == ScreeningInit /\ [][BatchNext]_vars

\* What an upload of paths leaves in the list: the candidates it found there,
\* no candidate for a file of unsupported extension, and for every other file
\* one candidate, which if new is unscreened and holds the extracted text, or
\* the empty text where the extraction failed.
BatchIngested(before, after, paths) ==
    /\ Len(after) >= Len(before)
    /\ SubSeq(after, 1, Len(before)) = before
    /\ \A k \in 1..Len(paths) :
          LET f == paths[k]
          IN IF f.ext \notin SUPPORTED_EXT
             THEN \A i \in 1..Len(after) : after[i].path # f.path
             ELSE \E i \in 1..Len(after) :
                     /\ after[i].path = f.path
                     /\ \A j \in 1..Len(after) : after[j].path = f.path => j = i
                     /\ i > Len(before) =>
                            /\ after[i].name = f.name
                            /\ after[i].text = (IF f.ok THEN f.text ELSE <<>>)
                            /\ after[i].found_skills = <<>>
                            /\ after[i].classification = "Unscreened"

\* What a screening pass leaves: every candidate classified, and no skill
\* found in a candidate without text.
AllClassified(after) ==
    \A i \in 1..Len(after) :
        /\ after[i].classification \in {"Suitable", "Maybe", "Reject"}
        /\ after[i].text = <<>> => after[i].found_skills = <<>>

\* C11: an upload never stops at a file it cannot read or does not support:
\* the unreadable file becomes an unscreened candidate with empty text, the
\* unsupported one is skipped, every other file of the batch is ingested;
\* and a screening pass classifies every candidate, the unreadable one with
\* no found skill.
C11_PerFileFailureNeverAborts ==
    [][/\ \A paths \in Batches :
             upload_resumes(paths) => BatchIngested(resumes, resumes', paths)
       /\ screen_resumes => (Len(resumes') = Len(resumes) /\ AllClassified(resumes'))]_vars

\* Screened: an unreadable file, rejected with no found skill, next to two
\* readable ones, one of them with found skills.
C11_Witness ==
    /\ screened.done
    /\ Len(resumes) = 3
    /\ \E i \in 1..Len(resumes) :
          /\ resumes[i].name = "scan.pdf"
          /\ resumes[i].text = <<>>
          /\ resumes[i].found_skills = <<>>
          /\ resumes[i].classification = "Reject"
    /\ \E i \in 1..Len(resumes) : resumes[i].found_skills # <<>>
    /\ \A i \in 1..Len(resumes) : resumes[i].classification # "Unscreened"

(***************************************************************************)
(* save_draft, one call after another.                                     *)
(***************************************************************************)
MaxDrafts == 3

SavedAt == "2026-01-05T09:30:00.000001"

\* Drafts as save_reply_draft builds them.
DraftSamples ==
    {[candidate_file |-> f, classification |-> c.classification,
      match_pct |-> c.match_pct,
      reply |-> generate_reply_template(JaneDoe, c.classification,
                                        <<SkillBoth>>, c.match_pct),
      saved_at |-> SavedAt] :
        f \in {"jane.txt", "scan.pdf"},
        c \in {[classification |-> "Suitable", match_pct |-> 10000],
               [classification |-> "Maybe", match_pct |-> 6667],
               [classification |-> "Reject", match_pct |-> 3333]}}

\* The drafts file is as __init__ left it, or as it found it: unreadable.
\* call logs the drafts handed to save_draft.
StoreInit ==
    /\ resumes = <<>>
    /\ selected_index = None
    /\ req_entry = DEFAULT_REQUIRED_SKILLS
    /\ crit_entry = DEFAULT_CRITICAL_SKILLS
    /\ reply_box = EmptyReplyBox
    /\ drafts_file \in {EmptyListFile, CorruptFile}
    /\ screened = NotScreened
    /\ savers = NoSavers
    /\ call = [fn |-> "save_draft", before |-> <<>>, saved |-> <<>>]

SaveDraft ==
    \E d \in DraftSamples :
        /\ Len(call.saved) < MaxDrafts
        /\ drafts_file' = save_draft(drafts_file, d)
        /\ call' = [call EXCEPT !.before = ReadDrafts(drafts_file),
                                !.saved = Append(call.saved, d)]
        /\ UNCHANGED <<resumes, selected_index, req_entry, crit_entry, reply_box,
                       screened, savers>>

SpecStore == StoreInit /\ [][SaveDraft]_vars

\* C9: re-reading the store after save_draft(d) yields the store's previous
\* contents, in order, followed by d; so the store holds every draft saved
\* so far, in the order saved.
C9_AppendOnlyRoundTrip ==
    /\ drafts_file.exists
    /\ call.saved # <<>> =>
          /\ drafts_file.valid
          /\ JsonLoad(drafts_file) = Append(call.before, call.saved[Len(call.saved)])
    /\ ReadDrafts(drafts_file) = call.saved

\* Three drafts saved, two of them differing only in the candidate file.
C9_Witness ==
    /\ Len(call.saved) = 3
    /\ Len(drafts_file.items) = 3
    /\ call.saved[1] # call.saved[2]
    /\ call.saved[1].match_pct = 3333
    /\ call.saved[2].match_pct = 3333

(***************************************************************************)
(* save_draft run by several processes on the same drafts file, each step  *)
(* of the function a step of its process.                                  *)
(***************************************************************************)
NumSavers == 2

Savers == 1..NumSavers

\* A process outside save_draft; d is the argument of its latest call.
NoDraft == [candidate_file |-> "", classification |-> "", match_pct |-> 0,
            reply |-> <<>>, saved_at |-> ""]

IdleSaver == [pc |-> "idle", d |-> NoDraft, drafts |-> <<>>]

ConcInit ==
    /\ resumes = <<>>
    /\ selected_index = None
    /\ req_entry = DEFAULT_REQUIRED_SKILLS
    /\ crit_entry = DEFAULT_CRITICAL_SKILLS
    /\ reply_box = EmptyReplyBox
    /\ drafts_file = EmptyListFile
    /\ screened = NotScreened
    /\ savers = [p \in Savers |-> IdleSaver]
    /\ call = NoCall

ConcUnchanged ==
    UNCHANGED <<resumes, selected_index, req_entry, crit_entry, reply_box, screened, call>>

\* Process p calls save_draft(d): drafts = [].
SaverCall(p, d) ==
    /\ savers[p].pc = "idle"
    /\ \A q \in Savers : savers[q].pc = "idle" \/ savers[q].d # d
    /\ savers' = [savers EXCEPT ![p] = [pc |-> "read", d |-> d, drafts |-> <<>>]]
    /\ UNCHANGED drafts_file
    /\ ConcUnchanged

\* if os.path.exists(...): try: drafts = json.load(f) except: drafts = []
SaverRead(p) ==
    /\ savers[p].pc = "read"
    /\ savers' = [savers EXCEPT ![p].pc = "append",
                                ![p].drafts = ReadDrafts(drafts_file)]
    /\ UNCHANGED drafts_file
    /\ ConcUnchanged

\* drafts.append(d); open(DRAFTS_FILE, "w") empties the file.
SaverOpenForWrite(p) ==
    /\ savers[p].pc = "append"
    /\ savers' = [savers EXCEPT ![p].pc = "dump",
                                ![p].drafts = Append(savers[p].drafts, savers[p].d)]
    /\ drafts_file' = TruncatedFile
    /\ ConcUnchanged

\* json.dump(drafts, f, ...) and the return.
SaverDump(p) ==
    /\ savers[p].pc = "dump"
    /\ drafts_file' = JsonDump(savers[p].drafts)
    /\ savers' = [savers EXCEPT ![p].pc = "done"]
    /\ ConcUnchanged

ConcCall == \E p \in Savers, d \in DraftSamples : SaverCall(p, d)

ConcRead == \E p \in Savers : SaverRead(p)

ConcOpenForWrite == \E p \in Savers : SaverOpenForWrite(p)

ConcDump == \E p \in Savers : SaverDump(p)

ConcNext == ConcCall \/ ConcRead \/ ConcOpenForWrite \/ ConcDump

SpecConc == ConcInit /\ [][ConcNext]_vars

\* C10: once the concurrent save_draft calls have all returned, the store
\* holds the draft of each of them.
C10_NoLostUpdate ==
    (\A p \in Savers : savers[p].pc = "done") =>
        \A p \in Savers : InList(savers[p].d, ReadDrafts(drafts_file))

\* C10: the read-append-rewrite steps of two calls never interleave.
C10_MutualExclusion ==
    \A p, q \in Savers :
        (p # q /\ savers[p].pc \in {"append", "dump"})
            => savers[q].pc \notin {"append", "dump"}

(***************************************************************************)
(* The reply editor.  reply_box holds the body the Text widget shows, and  *)
(* whether Generate Reply put it there or the user typed it.               *)
(***************************************************************************)
\* A run of whitespace the user typed.
Space(s) == [kind |-> "space", value |-> s]

\* str.strip() on a body: the whitespace at its two ends goes.
RECURSIVE LStripBody(_)
LStripBody(body) ==
    IF body # <<>> /\ Head(body).kind = "space" THEN LStripBody(Tail(body)) ELSE body

RECURSIVE RStripBody(_)
RStripBody(body) ==
    IF body # <<>> /\ body[Len(body)].kind = "space"
    THEN RStripBody(SubSeq(body, 1, Len(body) - 1))
    ELSE body

StripBody(body) == RStripBody(LStripBody(body))

\* self.reply_box.get(1.0, tk.END)
BoxText(box) == IF box.kind = "empty" THEN <<>> ELSE box.body

\* re.sub(r"[^A-Za-z\s]", " ", ln)
LettersAndSpaces(ln) ==
    [i \in 1..Len(ln) |->
        IF ln[i] \in UpperLetters \cup LowerLetters \/ IsSpace(ln[i]) THEN ln[i] ELSE " "]

\* The pieces that are not empty.
RECURSIVE NonEmpty(_)
NonEmpty(pieces) ==
    IF pieces = <<>> THEN <<>>
    ELSE IF Head(pieces) = <<>> THEN NonEmpty(Tail(pieces))
    ELSE <<Head(pieces)>> \o NonEmpty(Tail(pieces))

\* s.split(): the runs of s between whitespace.
Words(s) ==
    NonEmpty(Split([i \in 1..Len(s) |-> IF IsSpace(s[i]) THEN " " ELSE s[i]], <<" ">>[1]))

\* [ln.strip() for ln in text.splitlines() if ln.strip()]
RECURSIVE StrippedLines(_)
StrippedLines(lines) ==
    IF lines = <<>> THEN <<>>
    ELSE IF Strip(Head(lines)) = <<>> THEN StrippedLines(Tail(lines))
    ELSE <<Strip(Head(lines))>> \o StrippedLines(Tail(lines))

\* str.istitle() for a word of letters.
IsTitle(w) ==
    /\ w # <<>>
    /\ w[1] \in UpperLetters
    /\ \A i \in 2..Len(w) : w[i] \in LowerLetters

NameLines == 8

NoName == [is_none |-> TRUE, value |-> <<>>]

\* The loop of heuristic_extract_name over the first lines.
RECURSIVE FirstTitledPair(_)
FirstTitledPair(lines) ==
    IF lines = <<>> THEN NoName
    ELSE LET parts == Words(Strip(LettersAndSpaces(Head(lines))))
         IN IF Len(parts) >= 2 /\ IsTitle(parts[1]) /\ IsTitle(parts[2])
            THEN [is_none |-> FALSE, value |-> Join(Take(parts, 2), <<" ">>)]
            ELSE FirstTitledPair(Tail(lines))

heuristic_extract_name(text) ==
    IF text = <<>> THEN NoName
    ELSE FirstTitledPair(Take(StrippedLines(Split(text, "\n")), NameLines))

generate_reply_for_selected ==
    /\ selected_index # None
    /\ selected_index < Len(resumes)
    /\ LET r == resumes[selected_index + 1]
           found == heuristic_extract_name(r.text)
           name == IF found.is_none THEN <<>> ELSE found.value
           body == generate_reply_template(name, r.classification, r.found_skills,
                                           r.match_pct)
       IN reply_box' = [kind |-> "generated", body |-> body]
    /\ UNCHANGED <<resumes, selected_index, req_entry, crit_entry, drafts_file,
                   screened, savers, call>>

\* The user replaces the text of the reply editor.
TypeReply(body) ==
    /\ reply_box' = [kind |-> "typed", body |-> body]
    /\ UNCHANGED <<resumes, selected_index, req_entry, crit_entry, drafts_file,
                   screened, savers, call>>

MaxSaved == 1

\* save_reply_draft, as long as the drafts file holds fewer than MaxSaved.
save_reply_draft ==
    /\ selected_index # None
    /\ selected_index < Len(resumes)
    /\ Len(ReadDrafts(drafts_file)) < MaxSaved
    /\ LET r == resumes[selected_index + 1]
           reply == StripBody(BoxText(reply_box))
       IN /\ reply # <<>>
          /\ drafts_file' = save_draft(drafts_file,
                                [candidate_file |-> r.name,
                                 classification |-> r.classification,
                                 match_pct |-> r.match_pct,
                                 reply |-> reply,
                                 saved_at |-> SavedAt])
    /\ UNCHANGED <<resumes, selected_index, req_entry, crit_entry, reply_box,
                   screened, savers, call>>

(***************************************************************************)
(* The window: every button and the two editable widgets, in any order.    *)
(***************************************************************************)
AppFiles == {f \in DiskFiles : f.name \in {"jane.txt", "scan.pdf"}}

AppReqTexts == {DEFAULT_REQUIRED_SKILLS, PythonSql}

TypedReplies ==
    { <<Text("Dear applicant, we will call you."), Space("\n")>>,
      <<Space(" \n")>> }

AppUpload == \E f \in AppFiles : upload_resumes(<<f>>)

AppEditRequired == \E s \in AppReqTexts : EditRequired(s)

GenerateReply == generate_reply_for_selected

EditReply == \E body \in TypedReplies : TypeReply(body)

SaveReplyDraft == save_reply_draft

AppNext ==
    \/ AppUpload
    \/ AppEditRequired
    \/ Screen
    \/ Select
    \/ GenerateReply
    \/ EditReply
    \/ SaveReplyDraft
    \/ Remove
    \/ Clear

SpecApp == ScreeningInit /\ [][AppNext]_vars

\* C12: selected_index is None or an index into self.resumes, whatever the
\* user has done, so self.resumes[self.selected_index] is never out of range.
C12_SelectedIndexValid ==
    \/ selected_index = None
    \/ (0 <= selected_index /\ selected_index < Len(resumes))

\* The last of two candidates selected, screened, with a generated reply, and
\* a draft saved.
C12_Witness ==
    /\ Len(resumes) = 2
    /\ selected_index = 1
    /\ screened.done
    /\ reply_box.kind = "generated"
    /\ Len(ReadDrafts(drafts_file)) = 1

\* reply is the template generate_reply_template has for classification:
\* its literal text, and with_pct its percentage too.
FromTemplate(reply, classification, match_pct, with_pct) ==
    LET template == generate_reply_template(JaneDoe, classification, <<SkillBoth>>,
                                            match_pct)
    IN /\ Len(reply) = Len(template)
       /\ \A i \in 1..Len(template) :
             (template[i].kind = "text" \/ (with_pct /\ template[i].kind = "pct"))
                => reply[i] = template[i]

\* C13: a generated, unedited reply in the editor is the template of the
\* selected candidate's classification, with that candidate's match
\* percentage.
C13_ReplyNeverStale ==
    reply_box.kind = "generated" =>
        /\ selected_index # None
        /\ selected_index < Len(resumes)
        /\ FromTemplate(reply_box.body,
                        resumes[selected_index + 1].classification,
                        resumes[selected_index + 1].match_pct, TRUE)

\* C13, of the drafts file: a saved draft whose reply is a template pairs it
\* with the classification and match_pct of that template.
C13_SavedDraftPairsTemplate ==
    \A i \in 1..Len(ReadDrafts(drafts_file)) :
        LET d == ReadDrafts(drafts_file)[i]
        IN (\E c \in {"Suitable", "Maybe", "Reject"} : FromTemplate(d.reply, c, 0, FALSE))
              => FromTemplate(d.reply, d.classification, d.match_pct, TRUE)

====
